---- MODULE Spec2Model ----
(***************************************************************************)
(* Model of the live video analysis loop of                                *)
(* RekognitionVideoAnalyzer.run_video_analysis (src/lambda/video_stream.py)*)
(* One action per path through one loop iteration; the camera, the         *)
(* keyboard, the wall clock, the JPEG encoder and the Rekognition client   *)
(* are inputs chosen with \E.  Time is counted in whole seconds.           *)
(***************************************************************************)
EXTENDS Integers, Naturals, Sequences, FiniteSets, TLC

\* ---- bounds of the model ------------------------------------------------
MaxFrames == 3      \* frames the camera delivers at most in one session
MaxDt == 3          \* seconds that pass at most between two time.time() reads
MaxFaces == 1       \* faces in one DetectFaces response at most
MaxCadence == 2     \* analyze_every_n_frames is -MaxCadence, 0 or 1..MaxCadence
MaxTenth == 4       \* box coordinates range over 0/10 .. MaxTenth/10
MaxTestFrames == 3  \* frames simple_camera_test reads at most

\* ---- program constants --------------------------------------------------
MIN_INTERVAL == 2   \* "> 2" in the rate-limit test
SPACE == 32         \* ord(' ')
KEY_Q == 113        \* ord('q')
NO_KEY == 255       \* cv2.waitKey(1) & 0xFF when no key is pressed (-1 & 0xFF)
SESSION_START == 0  \* what time.time() returns before the loop

Keys == {SPACE, KEY_Q, NO_KEY}
CadenceValues == {0 - MaxCadence, 0} \cup 1..MaxCadence
Dts == 1..MaxDt

\* What cv2.imencode can do: succeed, or fail by raising cv2.error.
EncodeOutcomes == {"ok", "cv2.error"}

\* What one Rekognition request can do: answer, fail with a service-returned
\* botocore ClientError (throttling, access denied, invalid image, ...), or
\* fail with any other exception (EndpointConnectionError, ReadTimeoutError,
\* ResponseParserError, ...: BotoCoreError is not a ClientError).
NoCall == [kind |-> "no_call", n |-> 0]
FaceResponses ==
    {[kind |-> "ok", n |-> k] : k \in 0..MaxFaces}
      \cup {[kind |-> "ClientError", n |-> 0], [kind |-> "BotoCoreError", n |-> 0]}
LabelResponses ==
    {[kind |-> "ok", n |-> 1],
     [kind |-> "ClientError", n |-> 0], [kind |-> "BotoCoreError", n |-> 0]}

\* BoundingBox values of a face, in tenths of the image size, and the
\* frame.shape values the rectangles are drawn on.
Tenths == 0..MaxTenth
Boxes == [Left : Tenths, Top : Tenths, Width : Tenths, Height : Tenths]
FrameShapes ==
    {[width |-> 640, height |-> 480], [width |-> 15, height |-> 9]}
NoDrawing ==
    [box |-> [Left |-> 0, Top |-> 0, Width |-> 0, Height |-> 0],
     shape |-> [width |-> 0, height |-> 0],
     rect |-> [x1 |-> 0, y1 |-> 0, x2 |-> 0, y2 |-> 0]]

VARIABLES
    pc,                      \* position of run_video_analysis
    analyze_every_n_frames,  \* the argument of run_video_analysis
    cap_opened,              \* cap.isOpened() was true
    cap_released,            \* cap.release() has run
    windows_destroyed,       \* cv2.destroyAllWindows() has run
    frame_count,
    last_analysis_time,
    clock,                   \* the last value time.time() returned
    printed,                 \* kinds of lines run_video_analysis has printed
    tick,                    \* the iteration that ran last, in full
    ticks,                   \* history: what each frame read got, in short
    calls,                   \* history: frame index and time of each analysis
    drawn,                   \* the last rectangle draw_face_boxes has drawn
    camera_test              \* the run of simple_camera_test (camera_test.py)

vars == <<pc, analyze_every_n_frames, cap_opened, cap_released,
          windows_destroyed, frame_count, last_analysis_time, clock,
          printed, tick, ticks, calls, drawn,
                   camera_test>>

\* ---- pure pieces of the loop body ----------------------------------------

\* Python's a % n for n # 0: the result takes the sign of the divisor.
PyMod(a, n) == IF n > 0 THEN a % n ELSE 0 - ((0 - a) % (0 - n))

\* "frame_count % analyze_every_n_frames" is reached only when the key is not
\* the space bar; with a divisor of 0 it raises ZeroDivisionError.
RaisesZeroDivision(key, n) == key # SPACE /\ n = 0

\* analyze_frame after the if/elif/elif chain (when nothing was raised).
AnalyzeFrame(key, fc, n) ==
    IF key = SPACE THEN TRUE
    ELSE IF PyMod(fc, n) = 0 THEN TRUE
    ELSE FALSE

\* the chain reaches "elif key == ord('q'): break" only through both
\* earlier tests failing.
QuitTaken(key, fc, n) ==
    IF key = SPACE THEN FALSE
    ELSE IF PyMod(fc, n) = 0 THEN FALSE
    ELSE key = KEY_Q

\* (mutation of RateLimitOk: the test written with >=)
RateLimitOkInclusive(now, last) == now - last >= MIN_INTERVAL

\* "(current_time - last_analysis_time) > 2"
RateLimitOk(now, last) == now - last > MIN_INTERVAL

\* (mutation of NewAnalysisTime: the assignment left out)
NewAnalysisTimeStale(now, last) == last

\* "last_analysis_time = current_time", the last statement of the block.
NewAnalysisTime(now, last) == now

\* encode_image: raises iff cv2.imencode raises.
encode_image(enc) == [raised |-> enc = "cv2.error"]

\* detect_faces / detect_labels: "except ClientError" returns [], anything
\* else propagates.  value is the length of the returned list.
detect_faces(resp) ==
    IF resp.kind = "ok" THEN [raised |-> FALSE, value |-> resp.n]
    ELSE IF resp.kind = "ClientError" THEN [raised |-> FALSE, value |-> 0]
    ELSE [raised |-> TRUE, value |-> 0]

detect_labels(resp) ==
    IF resp.kind = "ok" THEN [raised |-> FALSE, value |-> resp.n]
    ELSE IF resp.kind = "ClientError" THEN [raised |-> FALSE, value |-> 0]
    ELSE [raised |-> TRUE, value |-> 0]

\* int(t/10 * len) for a coordinate of t tenths: int() truncates.
PixelOf(t, len) == (t * len) \div 10

\* (mutation of face_rectangle: the far corner converted from the sums
\* Left + Width and Top + Height)
face_rectangle_joint(box, shape) ==
    [x1 |-> PixelOf(box.Left, shape.width),
     y1 |-> PixelOf(box.Top, shape.height),
     x2 |-> PixelOf(box.Left + box.Width, shape.width),
     y2 |-> PixelOf(box.Top + box.Height, shape.height)]

\* the corners (x, y) and (x + w, y + h) handed to cv2.rectangle for a face.
face_rectangle(box, shape) ==
    LET x == PixelOf(box.Left, shape.width)
        y == PixelOf(box.Top, shape.height)
        w == PixelOf(box.Width, shape.width)
        h == PixelOf(box.Height, shape.height)
    IN  [x1 |-> x, y1 |-> y, x2 |-> x + w, y2 |-> y + h]

\* draw_face_boxes draws one rectangle per face: the number of boxes drawn.
draw_face_boxes(faces) == faces

\* (mutation of BlockRuns: one pass through the analysis block for each
\* trigger that fired, as two independent "if" statements would give)
BlockRunsPerTrigger(key, fc, n) ==
    (IF key = SPACE THEN 1 ELSE 0)
      + (IF n # 0 /\ PyMod(fc, n) = 0 THEN 1 ELSE 0)

\* How often one iteration runs the analysis block: both triggers set the one
\* flag analyze_frame, and a single "if analyze_frame and ..." reads it.
BlockRuns(key, fc, n) == IF AnalyzeFrame(key, fc, n) THEN 1 ELSE 0

\* (mutation of CaptionDrawn: the caption drawn only on frames that were not
\* analysed)
CaptionOnlyOnPassThrough(analysed) == ~analysed

\* The two cv2.putText calls before imshow are outside every "if".
CaptionDrawn(analysed) == TRUE

\* (mutation of FrameCountOnRead: the counter incremented before ret is
\* tested)
FrameCountBeforeTest(ret, fc) == fc + 1

\* frame_count after cap.read(): "if not ret: break" comes before
\* "frame_count += 1".
FrameCountOnRead(ret, fc) == IF ret THEN fc + 1 ELSE fc

\* (mutation of AfterOpen: the "return" after the error message left out)
AfterOpenNoReturn(ok) == "running"

\* where run_video_analysis goes after the isOpened() test.
AfterOpen(ok) == IF ok THEN "running" ELSE "returned"

\* (mutation of InitialAnalysisTime: last_analysis_time started at a time
\* long before the session, as "last_analysis_time = 0" would)
InitialAnalysisTimeLongAgo(start) == start - (MIN_INTERVAL + 1)

\* "last_analysis_time = time.time()" before the loop.
InitialAnalysisTime(start) == start

\* The statements one iteration executes, in program order.  A request to
\* Rekognition is a "..._call" followed by its "..._return" (an answer) or
\* its "..._error" (an exception raised in the client).
ReadEvents == <<"read", "poll">>

\* (mutation of AnalysisEvents: the label request sent before the face
\* request has come back)
AnalysisEventsOverlapped(enc, fresp, lresp) ==
    <<"encode", "faces_call", "labels_call", "faces_return", "labels_return",
      "print_results", "draw_face_boxes">>

\* the analysis block: encode_image, detect_faces, detect_labels,
\* print_detection_results, draw_face_boxes, each called synchronously.
AnalysisEvents(enc, fresp, lresp) ==
    <<"encode">> \o
    (IF encode_image(enc).raised THEN <<"raise">>
     ELSE <<"faces_call",
            IF fresp.kind = "ok" THEN "faces_return" ELSE "faces_error">> \o
          (IF detect_faces(fresp).raised THEN <<"raise">>
           ELSE <<"labels_call",
                  IF lresp.kind = "ok" THEN "labels_return"
                  ELSE "labels_error">> \o
                (IF detect_labels(lresp).raised THEN <<"raise">>
                 ELSE <<"print_results", "draw_face_boxes">>)))

\* the end of an iteration that goes on: caption, imshow.
ShowEvents(analysed) ==
    IF CaptionDrawn(analysed) THEN <<"caption", "show">> ELSE <<"show">>

\* s repeated k times.
RECURSIVE Repeat(_, _)
Repeat(s, k) == IF k <= 0 THEN <<>> ELSE s \o Repeat(s, k - 1)

\* (mutation of Finally: the clean-up written after the try statement
\* instead of in its finally clause, so that an exception skips it)
FinallyOnReturnOnly(how) ==
    [released |-> how = "returned", destroyed |-> how = "returned"]

\* The finally clause: runs on every way out of the try block, "how" being
\* "returned" (break, or KeyboardInterrupt caught) or "raised".
Finally(how) == [released |-> TRUE, destroyed |-> TRUE]

\* ---- the state machine ---------------------------------------------------

\* the value of tick before the first frame is read.
NoTick ==
    [index |-> 0, key |-> NO_KEY, now |-> SESSION_START,
     last |-> SESSION_START, analysed |-> FALSE,
     enc |-> "na", labels |-> NoCall, events |-> <<>>, exit |-> "none"]

\* simple_camera_test before its first statement: where it is, what
\* cap.isOpened() said, what the finally block has done, the frame counter,
\* the frames shown, the kinds of lines printed, the count printed by the
\* summary line (-1: not printed), the exception in flight, why the loop was
\* left, the value returned and the exception the caller got.
NoCameraTest ==
    [pc |-> "init", opened |-> FALSE, released |-> FALSE,
     windows_destroyed |-> FALSE, frame_count |-> 0, shown |-> 0,
     printed |-> {}, summary |-> 0 - 1, pending |-> "none",
     exit |-> "none", result |-> "none", propagated |-> "none"]

Init ==
    /\ pc = "init"
    /\ analyze_every_n_frames \in CadenceValues
    /\ cap_opened = FALSE
    /\ cap_released = FALSE
    /\ windows_destroyed = FALSE
    /\ frame_count = 0
    /\ last_analysis_time = SESSION_START
    /\ clock = SESSION_START
    /\ printed = {}
    /\ tick = NoTick
    /\ ticks = <<>>
    /\ calls = <<>>
    /\ drawn = NoDrawing
    /\ camera_test = NoCameraTest

\* One iteration, in full: the frame index, the key polled, current_time,
\* last_analysis_time as the iteration found it, whether the analysis block
\* was entered, what cv2.imencode did ("na": not called), and how the
\* the answer to the label request, the statements executed, and how the
\* iteration ended ("continue": the frame was shown and the loop went on).
Tick(key, now, analysed, enc, lresp, events, exit) ==
    [index |-> frame_count + 1, key |-> key, now |-> now,
     last |-> last_analysis_time, analysed |-> analysed, enc |-> enc,
     labels |-> lresp, events |-> events, exit |-> exit]

\* One iteration, in short: what the face request got, whether imshow showed
\* the frame, the rectangles drawn on it and whether it carries the caption.
Frame(fresp, shown, boxes, caption) ==
    [faces |-> fresp, presented |-> shown, boxes |-> boxes,
     caption |-> caption]

\* One entry of the log of analyses: the frame sent to Rekognition and the
\* current_time of its iteration.
Call(now) == [index |-> frame_count + 1, now |-> now]

\* leaving the try block: the finally clause, then return or propagate.
Leave(how) ==
    /\ cap_released' = Finally(how).released
    /\ windows_destroyed' = Finally(how).destroyed
    /\ pc' = how

\* cv2.VideoCapture(0) and the isOpened() test, up to the start of the loop.
Open ==
    /\ pc = "init"
    /\ \E ok \in BOOLEAN :
         /\ cap_opened' = ok
         /\ pc' = AfterOpen(ok)
         /\ printed' = printed \cup (IF ok THEN {"webcam_initialized"}
                                      ELSE {"could_not_open_webcam"})
    /\ frame_count' = 0
    /\ last_analysis_time' = InitialAnalysisTime(clock)
    /\ UNCHANGED <<analyze_every_n_frames, cap_released, windows_destroyed,
                   clock, tick, ticks, calls, drawn,
                   camera_test>>

\* cap.read() returns ret = False: print, break, finally.
ReadFail ==
    /\ pc = "running"
    /\ frame_count' = FrameCountOnRead(FALSE, frame_count)
    /\ printed' = printed \cup {"could_not_read_frame", "cleaned_up"}
    /\ Leave("returned")
    /\ UNCHANGED <<analyze_every_n_frames, cap_opened,
                   last_analysis_time, clock, tick, ticks, calls, drawn,
                   camera_test>>

\* Ctrl-C while the loop runs: either while cap.read() blocks, or after the
\* frame was read and counted; caught by "except KeyboardInterrupt".
Interrupt ==
    /\ pc = "running"
    /\ \E counted \in BOOLEAN :
         IF counted /\ frame_count < MaxFrames
         THEN /\ frame_count' = FrameCountOnRead(TRUE, frame_count)
              /\ tick' = Tick(NO_KEY, clock, FALSE, "na", NoCall, <<"read">>,
                              "KeyboardInterrupt")
              /\ ticks' = Append(ticks, Frame(NoCall, FALSE, 0, FALSE))
         ELSE UNCHANGED <<frame_count, tick, ticks>>
    /\ printed' = printed \cup {"stopped_by_user", "cleaned_up"}
    /\ Leave("returned")
    /\ UNCHANGED <<analyze_every_n_frames, cap_opened, last_analysis_time,
                   clock, calls, drawn,
                   camera_test>>

\* An iteration whose "frame_count % analyze_every_n_frames" divides by 0.
IterZeroDivision ==
    /\ pc = "running" /\ frame_count < MaxFrames
    /\ \E key \in Keys, dt \in Dts :
         /\ RaisesZeroDivision(key, analyze_every_n_frames)
         /\ clock' = clock + dt
         /\ tick' = Tick(key, clock + dt, FALSE, "na", NoCall,
                         ReadEvents \o <<"raise">>, "ZeroDivisionError")
         /\ ticks' = Append(ticks, Frame(NoCall, FALSE, 0, FALSE))
    /\ frame_count' = FrameCountOnRead(TRUE, frame_count)
    /\ printed' = printed \cup {"cleaned_up"}
    /\ Leave("raised")
    /\ UNCHANGED <<analyze_every_n_frames, cap_opened, last_analysis_time,
                   calls, drawn,
                   camera_test>>

\* An iteration that takes "elif key == ord('q'): break".
IterQuit ==
    /\ pc = "running" /\ frame_count < MaxFrames
    /\ \E key \in Keys, dt \in Dts :
         /\ ~RaisesZeroDivision(key, analyze_every_n_frames)
         /\ QuitTaken(key, frame_count + 1, analyze_every_n_frames)
         /\ clock' = clock + dt
         /\ tick' = Tick(key, clock + dt, FALSE, "na", NoCall, ReadEvents,
                         "quit")
         /\ ticks' = Append(ticks, Frame(NoCall, FALSE, 0, FALSE))
    /\ frame_count' = FrameCountOnRead(TRUE, frame_count)
    /\ printed' = printed \cup {"cleaned_up"}
    /\ Leave("returned")
    /\ UNCHANGED <<analyze_every_n_frames, cap_opened, last_analysis_time,
                   calls, drawn,
                   camera_test>>

\* An iteration that skips the analysis block: caption, imshow, next frame.
IterPassThrough ==
    /\ pc = "running" /\ frame_count < MaxFrames
    /\ \E key \in Keys, dt \in Dts :
         /\ ~RaisesZeroDivision(key, analyze_every_n_frames)
         /\ ~QuitTaken(key, frame_count + 1, analyze_every_n_frames)
         /\ ~(/\ AnalyzeFrame(key, frame_count + 1, analyze_every_n_frames)
              /\ RateLimitOk(clock + dt, last_analysis_time))
         /\ clock' = clock + dt
         /\ tick' = Tick(key, clock + dt, FALSE, "na", NoCall,
                         ReadEvents \o ShowEvents(FALSE), "continue")
         /\ ticks' = Append(ticks,
                Frame(NoCall, TRUE, 0, CaptionDrawn(FALSE)))
    /\ frame_count' = FrameCountOnRead(TRUE, frame_count)
    /\ UNCHANGED <<pc, analyze_every_n_frames, cap_opened, cap_released,
                   windows_destroyed, last_analysis_time, printed, calls, drawn,
                   camera_test>>

\* An iteration that runs the analysis block to its end.
IterAnalyze ==
    /\ pc = "running" /\ frame_count < MaxFrames
    /\ \E key \in Keys, dt \in Dts, enc \in EncodeOutcomes,
          fresp \in FaceResponses, lresp \in LabelResponses :
         /\ ~RaisesZeroDivision(key, analyze_every_n_frames)
         /\ AnalyzeFrame(key, frame_count + 1, analyze_every_n_frames)
         /\ RateLimitOk(clock + dt, last_analysis_time)
         /\ ~encode_image(enc).raised
         /\ ~detect_faces(fresp).raised
         /\ ~detect_labels(lresp).raised
         /\ clock' = clock + dt
         /\ last_analysis_time' = NewAnalysisTime(clock + dt, last_analysis_time)
         /\ tick' = Tick(key, clock + dt, TRUE, enc, lresp,
                ReadEvents
                  \o Repeat(AnalysisEvents(enc, fresp, lresp),
                            BlockRuns(key, frame_count + 1,
                                      analyze_every_n_frames))
                  \o ShowEvents(TRUE),
                "continue")
         /\ calls' = Append(calls, Call(clock + dt))
         /\ ticks' = Append(ticks,
                Frame(fresp, TRUE,
                      draw_face_boxes(detect_faces(fresp).value),
                      CaptionDrawn(TRUE)))
         /\ printed' = printed \cup {"analyzing", "results"}
    /\ frame_count' = FrameCountOnRead(TRUE, frame_count)
    /\ UNCHANGED <<pc, analyze_every_n_frames, cap_opened, cap_released,
                   windows_destroyed, drawn,
                   camera_test>>

\* An iteration whose analysis block raises: in encode_image, in
\* detect_faces, or in detect_labels after detect_faces returned.
IterAnalyzeRaises ==
    /\ pc = "running" /\ frame_count < MaxFrames
    /\ \E key \in Keys, dt \in Dts, enc \in EncodeOutcomes :
       \E fresp \in (IF encode_image(enc).raised
                     THEN {NoCall} ELSE FaceResponses) :
       \E lresp \in (IF encode_image(enc).raised \/ detect_faces(fresp).raised
                     THEN {NoCall} ELSE LabelResponses) :
         /\ ~RaisesZeroDivision(key, analyze_every_n_frames)
         /\ AnalyzeFrame(key, frame_count + 1, analyze_every_n_frames)
         /\ RateLimitOk(clock + dt, last_analysis_time)
         /\ \/ encode_image(enc).raised
            \/ fresp # NoCall /\ detect_faces(fresp).raised
            \/ lresp # NoCall /\ detect_labels(lresp).raised
         /\ clock' = clock + dt
         /\ tick' = Tick(key, clock + dt, TRUE, enc, lresp,
                         ReadEvents \o AnalysisEvents(enc, fresp, lresp),
                         IF encode_image(enc).raised THEN "cv2.error"
                         ELSE "BotoCoreError")
         /\ ticks' = Append(ticks, Frame(fresp, FALSE, 0, FALSE))
         /\ calls' = IF fresp = NoCall THEN calls
                     ELSE Append(calls, Call(clock + dt))
         /\ printed' = printed \cup {"analyzing", "cleaned_up"}
    /\ frame_count' = FrameCountOnRead(TRUE, frame_count)
    /\ Leave("raised")
    /\ UNCHANGED <<analyze_every_n_frames, cap_opened, last_analysis_time,
                   drawn,
                   camera_test>>

Next ==
    \/ Open
    \/ ReadFail
    \/ Interrupt
    \/ IterZeroDivision
    \/ IterQuit
    \/ IterPassThrough
    \/ IterAnalyze
    \/ IterAnalyzeRaises

Spec == Init /\ [][Next]_vars

\* ---- draw_face_boxes on its own ------------------------------------------

\* one pass of the "for face in faces" loop, for any box on any frame shape.
DrawFaceBox ==
    /\ \E box \in Boxes, shape \in FrameShapes :
         drawn' = [box |-> box, shape |-> shape,
                   rect |-> face_rectangle(box, shape)]
    /\ UNCHANGED <<pc, analyze_every_n_frames, cap_opened, cap_released,
                   windows_destroyed, frame_count, last_analysis_time, clock,
                   printed, tick, ticks, calls, camera_test>>

InitDraw == Init /\ analyze_every_n_frames = 1

NextDraw == DrawFaceBox

SpecDraw == InitDraw /\ [][NextDraw]_vars

\* ---- simple_camera_test (camera_test.py) ----------------------------------

\* the statements of the preview loop: cap.read, the two putText calls,
\* imshow and waitKey.
LoopPoints == {"read", "draw", "show", "poll"}

\* (mutation of FinallyReturn: the finally block without its return, so that
\* an exception in flight goes on to the caller.)
FinallyFallsThrough(pending) ==
    IF pending = "none"
    THEN [result |-> "True", propagated |-> "none"]
    ELSE [result |-> "none", propagated |-> pending]

\* "return True" as the last statement of the finally block: Python drops
\* the exception in flight, whatever it is, and the function returns True.
FinallyReturn(pending) == [result |-> "True", propagated |-> "none"]

OtherVars ==
    <<pc, analyze_every_n_frames, cap_opened, cap_released,
      windows_destroyed, frame_count, last_analysis_time, clock,
      printed, tick, ticks, calls, drawn>>

\* cap = cv2.VideoCapture(camera_index); if not cap.isOpened(): return False
TestOpen ==
    /\ camera_test.pc = "init"
    /\ \E ok \in BOOLEAN :
         camera_test' =
           IF ok
           THEN [camera_test EXCEPT
                   !.opened = TRUE, !.pc = "read",
                   !.printed = @ \cup {"camera_opened"}]
           ELSE [camera_test EXCEPT
                   !.pc = "returned", !.result = "False",
                   !.printed = @ \cup {"failed_to_open_camera"}]
    /\ UNCHANGED OtherVars

\* ret, frame = cap.read() with ret true; frame_count += 1
TestRead ==
    /\ camera_test.pc = "read"
    /\ camera_test.frame_count < MaxTestFrames
    /\ camera_test' = [camera_test EXCEPT
                         !.frame_count = @ + 1, !.pc = "draw"]
    /\ UNCHANGED OtherVars

\* ret false: print "Failed to read frame"; break
TestReadFail ==
    /\ camera_test.pc = "read"
    /\ camera_test' = [camera_test EXCEPT
                         !.printed = @ \cup {"failed_to_read_frame"},
                         !.exit = "read_failed", !.pc = "finally"]
    /\ UNCHANGED OtherVars

\* the two cv2.putText calls
TestDraw ==
    /\ camera_test.pc = "draw"
    /\ camera_test' = [camera_test EXCEPT !.pc = "show"]
    /\ UNCHANGED OtherVars

\* cv2.imshow('Camera Test', frame)
TestShow ==
    /\ camera_test.pc = "show"
    /\ camera_test' = [camera_test EXCEPT !.shown = @ + 1, !.pc = "poll"]
    /\ UNCHANGED OtherVars

\* if cv2.waitKey(1) & 0xFF == ord('q'): break
TestPoll ==
    /\ camera_test.pc = "poll"
    /\ \E key \in Keys :
         camera_test' =
           IF key = KEY_Q
           THEN [camera_test EXCEPT !.exit = "quit", !.pc = "finally"]
           ELSE [camera_test EXCEPT !.pc = "read"]
    /\ UNCHANGED OtherVars

\* Ctrl-C while a statement of the loop runs: control goes to the except
\* clause.
TestInterrupt ==
    /\ camera_test.pc \in LoopPoints
    /\ camera_test' = [camera_test EXCEPT
                         !.exit = "KeyboardInterrupt", !.pc = "except"]
    /\ UNCHANGED OtherVars

\* except KeyboardInterrupt: print "Test interrupted by user"
TestExcept ==
    /\ camera_test.pc = "except"
    /\ camera_test' = [camera_test EXCEPT
                         !.printed = @ \cup {"interrupted"},
                         !.pc = "finally"]
    /\ UNCHANGED OtherVars

\* a statement of the loop raises anything else (cv2.error): no except
\* clause matches, the finally block runs with the exception in flight.
TestRaise ==
    /\ camera_test.pc \in LoopPoints
    /\ camera_test' = [camera_test EXCEPT
                         !.exit = "cv2.error", !.pending = "cv2.error",
                         !.pc = "finally"]
    /\ UNCHANGED OtherVars

\* finally: cap.release()
TestRelease ==
    /\ camera_test.pc = "finally"
    /\ camera_test' = [camera_test EXCEPT
                         !.released = TRUE, !.pc = "finally_destroy"]
    /\ UNCHANGED OtherVars

\* finally: cv2.destroyAllWindows()
TestDestroyWindows ==
    /\ camera_test.pc = "finally_destroy"
    /\ camera_test' = [camera_test EXCEPT
                         !.windows_destroyed = TRUE, !.pc = "finally_print"]
    /\ UNCHANGED OtherVars

\* finally: print "Camera test completed. Processed {frame_count} frames"
TestPrintSummary ==
    /\ camera_test.pc = "finally_print"
    /\ camera_test' = [camera_test EXCEPT
                         !.summary = camera_test.frame_count,
                         !.printed = @ \cup {"completed"},
                         !.pc = "finally_return"]
    /\ UNCHANGED OtherVars

\* finally: return True
TestReturn ==
    /\ camera_test.pc = "finally_return"
    /\ camera_test' =
         [camera_test EXCEPT
            !.result = FinallyReturn(camera_test.pending).result,
            !.propagated = FinallyReturn(camera_test.pending).propagated,
            !.pending = "none",
            !.pc = IF FinallyReturn(camera_test.pending).propagated = "none"
                   THEN "returned" ELSE "raised"]
    /\ UNCHANGED OtherVars

InitTest == Init /\ analyze_every_n_frames = 1

NextTest ==
    \/ TestOpen
    \/ TestRead
    \/ TestReadFail
    \/ TestDraw
    \/ TestShow
    \/ TestPoll
    \/ TestInterrupt
    \/ TestExcept
    \/ TestRaise
    \/ TestRelease
    \/ TestDestroyWindows
    \/ TestPrintSummary
    \/ TestReturn

SpecTest == InitTest /\ [][NextTest]_vars

\* ---- vocabulary of the properties ----------------------------------------

\* i is a multiple of n (n # 0), stated without PyMod.
IsMultiple(i, n) == n # 0 /\ \E q \in (0 - i)..i : q * n = i

\* a frame has been read, and its tick evaluated the trigger decision (it was
\* not cut short by Ctrl-C).
Evaluated == tick.index > 0 /\ tick.exit # "KeyboardInterrupt"

\* the manual trigger or the periodic cadence fired on the last tick.
Triggered ==
    Evaluated
      /\ (tick.key = SPACE \/ IsMultiple(tick.index, analyze_every_n_frames))

Failures == {"ClientError", "BotoCoreError"}

\* tick i sent a request to the Detection Client.
RemoteCall(i) == ticks[i].faces # NoCall

\* a Detection Client call of tick i failed.  Of the ticks before the last one
\* the history keeps the outcome of the face request only.
DetectionFailed(i) ==
    \/ ticks[i].faces.kind \in Failures
    \/ i = Len(ticks) /\ tick.labels.kind \in Failures

\* the remote analysis of tick i succeeded (same remark).
DetectionSucceeded(i) ==
    /\ ticks[i].faces.kind = "ok"
    /\ i = Len(ticks) => tick.labels.kind = "ok"

\* tick i showed its frame and the loop went on to the next read.
Continued(i) ==
    ticks[i].presented /\ (i = Len(ticks) => tick.exit = "continue")

\* the last tick showed the unannotated frame without any analysis, and the
\* loop went on.
PassedThrough ==
    /\ ~tick.analysed /\ ~RemoteCall(Len(ticks))
    /\ ticks[Len(ticks)].boxes = 0
    /\ Continued(Len(ticks))

\* time of the last successful analysis before tick j (the session start if
\* there is none).
RECURSIVE LastSuccessIn(_, _)
LastSuccessIn(n, j) ==
    IF n = 0 THEN SESSION_START
    ELSE IF calls[n].index < j /\ DetectionSucceeded(calls[n].index)
         THEN calls[n].now
    ELSE LastSuccessIn(n - 1, j)
LastSuccessBefore(j) == LastSuccessIn(Len(calls), j)

Terminated == pc \in {"returned", "raised"}

\* ---- C1 -------------------------------------------------------------------
\* C1 (as stated): on every tick an analysis is triggered iff (the frame index
\* is a multiple of the cadence or the manual trigger was issued) and at
\* least min_interval_seconds have passed since last_analysis_timestamp.
C1_AsStated ==
    Evaluated =>
        (tick.analysed <=>
            (Triggered /\ tick.now - tick.last >= MIN_INTERVAL))

\* C1 (amended): on every tick an analysis is triggered iff (the frame index
\* is a multiple of the cadence or the manual trigger was issued) and strictly
\* more than min_interval_seconds have passed since last_analysis_timestamp;
\* a trigger arriving exactly min_interval_seconds after it passes through.
C1_TriggerRule ==
    Evaluated =>
        /\ tick.analysed <=>
              (Triggered /\ tick.now - tick.last > MIN_INTERVAL)
        /\ (Triggered /\ tick.now - tick.last = MIN_INTERVAL)
             => PassedThrough

\* C1 witness: a triggered tick exactly min_interval_seconds after an analysed
\* tick passed through.
C1_Witness ==
    /\ Triggered
    /\ Len(calls) > 0 /\ tick.last = calls[Len(calls)].now
    /\ tick.now - tick.last = MIN_INTERVAL
    /\ PassedThrough

\* ---- C2 -------------------------------------------------------------------
\* C2: when the quit key is received on a tick, the loop stops on that tick
\* and the teardown runs.
C2_QuitTerminates ==
    (tick.index > 0 /\ tick.key = KEY_Q) =>
        (Terminated /\ cap_released /\ windows_destroyed)

\* ---- C3 -------------------------------------------------------------------
\* C3: a tick on which a Detection Client call failed, whatever the kind of
\* error, is shown and the loop goes on to the next frame.
C3_FailureAbsorbed ==
    \A i \in DOMAIN ticks : DetectionFailed(i) => Continued(i)

\* ---- C4 -------------------------------------------------------------------
\* C4: only a tick whose remote analysis succeeded changes
\* last_analysis_timestamp.
C4_AdvancedOnlyOnSuccess ==
    (tick.index > 0 /\ last_analysis_time # tick.last)
        => DetectionSucceeded(Len(ticks))

\* ---- C5 -------------------------------------------------------------------
\* C5: after a Detection Client failure on tick k the loop goes on, and tick
\* k + cadence_n is analysed when more than the rate-limit interval has
\* passed since the last successful analysis.
C5_FailureIsolation ==
    \A k \in DOMAIN ticks :
        (analyze_every_n_frames >= 1 /\ DetectionFailed(k)) =>
            /\ Continued(k)
            /\ (/\ k + analyze_every_n_frames = tick.index
                /\ Evaluated
                /\ tick.now - LastSuccessBefore(tick.index) > MIN_INTERVAL)
                 => tick.analysed

\* ---- C6 -------------------------------------------------------------------
\* C6: once a tick has sent a remote request at time t, every later triggered
\* tick at a time less than min_interval_seconds after t passes through
\* without a remote request, and no two ticks that sent remote requests are
\* less than min_interval_seconds apart.
C6_RateLimit ==
    \A c \in DOMAIN calls :
        /\ (/\ calls[c].index < tick.index
            /\ Triggered
            /\ tick.now - calls[c].now < MIN_INTERVAL)
             => PassedThrough
        /\ \A d \in DOMAIN calls :
             c < d => calls[d].now - calls[c].now >= MIN_INTERVAL

\* C6 witness: after two analyses, a trigger less than min_interval_seconds
\* after the second one passed through.
C6_Witness ==
    /\ Len(calls) >= 2
    /\ calls[Len(calls)].index < tick.index
    /\ Triggered
    /\ tick.now - calls[Len(calls)].now < MIN_INTERVAL
    /\ PassedThrough

\* ---- C7 -------------------------------------------------------------------
\* C7: whenever run_video_analysis has returned or propagated after the
\* camera was opened, the camera is released and the windows are destroyed.
C7_TeardownUnconditional ==
    (Terminated /\ cap_opened) => (cap_released /\ windows_destroyed)

\* C7 witness: the session ended by an exception raised inside the loop, with
\* the camera released and the windows destroyed.
C7_Witness ==
    /\ pc = "raised" /\ cap_opened
    /\ tick.exit = "BotoCoreError"
    /\ cap_released /\ windows_destroyed

\* ---- C8 -------------------------------------------------------------------
\* C8: with cadence_n <= 0 a tick is analysed only on the manual trigger, and
\* no tick raises a division error.
C8_NonPositiveCadence ==
    (analyze_every_n_frames <= 0 /\ tick.index > 0) =>
        /\ tick.analysed => tick.key = SPACE
        /\ tick.exit # "ZeroDivisionError"

\* ---- C9 -------------------------------------------------------------------
\* the session of the scenario: cadence 1, three frames delivered and the
\* session over, one face on frame 1, none on frame 2, a failure on frame 3.
C9_Scenario ==
    /\ analyze_every_n_frames = 1
    /\ Terminated /\ Len(ticks) = 3
    /\ ticks[1].faces = [kind |-> "ok", n |-> 1]
    /\ ticks[2].faces = [kind |-> "ok", n |-> 0]
    /\ ticks[3].faces.kind \in Failures

\* C9: in that session frame 1 is shown with one box, frames 2 and 3 are shown
\* without boxes, the loop does not end abnormally, and a frame count of 3 is
\* reported.
C9_EndToEnd ==
    C9_Scenario =>
        /\ ticks[1].presented /\ ticks[1].boxes = 1
        /\ ticks[2].presented /\ ticks[2].boxes = 0
        /\ ticks[3].presented /\ ticks[3].boxes = 0
        /\ pc = "returned"
        /\ frame_count = 3 /\ "frame_count_summary" \in printed

\* ---- C10 ------------------------------------------------------------------
\* C10: a tick whose encoding failed makes no remote request, shows the raw
\* frame, leaves last_analysis_timestamp alone, and the loop goes on.
C10_EncoderFailureLocal ==
    tick.enc = "cv2.error" =>
        /\ ~RemoteCall(Len(ticks))
        /\ Continued(Len(ticks)) /\ ticks[Len(ticks)].boxes = 0
        /\ last_analysis_time = tick.last

\* ---- vocabulary of the properties of C11 to C20 ---------------------------

\* how often e occurs in the sequence s.
RECURSIVE Count(_, _)
Count(s, e) ==
    IF s = <<>> THEN 0
    ELSE (IF Head(s) = e THEN 1 ELSE 0) + Count(Tail(s), e)

\* position of the first e in s (0 if there is none).
FirstAt(s, e) ==
    IF \E k \in DOMAIN s : s[k] = e
    THEN CHOOSE k \in DOMAIN s : s[k] = e /\ \A m \in 1..(k - 1) : s[m] # e
    ELSE 0

CallStarts == {"faces_call", "labels_call"}
CallEnds == {"faces_return", "faces_error", "labels_return", "labels_error"}

\* requests to Rekognition in flight after the first k statements of the
\* last tick.
InFlightAt(k) ==
    Cardinality({m \in 1..k : tick.events[m] \in CallStarts})
      - Cardinality({m \in 1..k : tick.events[m] \in CallEnds})

\* the manual trigger and the periodic cadence both fired on the last tick.
BothFired ==
    /\ Evaluated
    /\ tick.key = SPACE
    /\ IsMultiple(tick.index, analyze_every_n_frames)

\* ---- C11 ------------------------------------------------------------------
\* C11: when a started session has ended, the number of frames processed has
\* been reported, and it is the number of frames the camera delivered.
C11_FrameCountReported ==
    (Terminated /\ cap_opened) =>
        /\ "frame_count_summary" \in printed
        /\ frame_count = Len(ticks)

C13_NoSessionWithoutCamera ==
    (pc # "init" /\ ~cap_opened) =>
        /\ pc = "returned"
        /\ "could_not_open_webcam" \in printed
        /\ frame_count = 0 /\ tick = NoTick
        /\ ticks = <<>> /\ calls = <<>>
        /\ ~cap_released

\* C13 witness: the camera could not be opened and the run is over.
C13_Witness ==
    /\ pc = "returned" /\ ~cap_opened
    /\ "could_not_open_webcam" \in printed

\* ---- C14 ------------------------------------------------------------------
\* C14: the step on which a read fails ends the loop without counting the
\* frame, polling the keyboard, analysing or showing anything, and no step
\* follows a failed read.
C14_FailedReadTerminates ==
    [][/\ "could_not_read_frame" \notin printed
       /\ "could_not_read_frame" \in printed'
            => /\ pc' = "returned"
               /\ frame_count' = frame_count
               /\ tick' = tick /\ ticks' = ticks /\ calls' = calls]_vars

\* C14 witness: a read failed after a frame had been read and shown.
C14_Witness ==
    /\ "could_not_read_frame" \in printed
    /\ pc = "returned"
    /\ frame_count > 0 /\ frame_count = Len(ticks)
    /\ tick.exit = "continue"

\* ---- C15 ------------------------------------------------------------------
\* C15: a tick that triggers no analysis (and does not quit), or on which a
\* Detection Client call fails, shows the frame without a face box and the
\* loop goes on.
C15_UnannotatedWithoutDetections ==
    (/\ tick.index > 0
     /\ tick.exit \notin {"quit", "KeyboardInterrupt"}
     /\ (~tick.analysed \/ DetectionFailed(Len(ticks))))
      => /\ ticks[Len(ticks)].presented
         /\ ticks[Len(ticks)].boxes = 0
         /\ tick.exit = "continue"

\* ---- C16 ------------------------------------------------------------------
\* C16: every frame shown carries the caption; every frame read is shown
\* once, except the frame of the tick on which the loop ended.
C16_CaptionAlways ==
    /\ \A i \in DOMAIN ticks :
          /\ ticks[i].presented => ticks[i].caption
          /\ ~ticks[i].presented
               => (i = Len(ticks) /\ Terminated /\ tick.exit # "continue")
    /\ tick.index > 0 =>
          /\ Count(tick.events, "show")
               = (IF ticks[Len(ticks)].presented THEN 1 ELSE 0)
          /\ ticks[Len(ticks)].presented
               => /\ FirstAt(tick.events, "caption") > 0
                  /\ FirstAt(tick.events, "caption")
                       < FirstAt(tick.events, "show")

\* C16 witness: a tick whose face request failed showed its frame with the
\* caption, after an earlier frame was shown.
C16_Witness ==
    /\ Len(ticks) >= 2
    /\ ticks[Len(ticks)].faces.kind = "ClientError"
    /\ ticks[Len(ticks)].presented /\ ticks[Len(ticks)].caption
    /\ Count(tick.events, "show") = 1

\* ---- C17 ------------------------------------------------------------------
\* C17: at no point of a tick is more than one request in flight; none is in
\* flight when a request is sent, when the frame is shown, or when the tick
\* ends and the next frame is read.
C17_OneCallInFlight ==
    /\ \A k \in 0..Len(tick.events) : InFlightAt(k) \in {0, 1}
    /\ \A k \in DOMAIN tick.events :
          tick.events[k] \in CallStarts \cup {"show", "read"}
            => InFlightAt(k - 1) = 0
    /\ InFlightAt(Len(tick.events)) = 0

\* C17 witness: a tick sent both requests, got both answers and showed its
\* frame.
C17_Witness ==
    /\ Count(tick.events, "faces_return") = 1
    /\ Count(tick.events, "labels_return") = 1
    /\ Count(tick.events, "show") = 1

\* ---- C18 ------------------------------------------------------------------
\* p is t/10 * len converted to an integer pixel.
IsPixelOf(p, t, len) == 10 * p <= t * len /\ t * len < 10 * (p + 1)

\* C18: the rectangle drawn for a box has its first corner at the pixels of
\* Left * W and Top * H, and its far corner further by the pixels of
\* Width * W and Height * H, each product converted on its own; the box
\* (0.1, 0.2, 0.3, 0.4) on a 640 x 480 frame gives (64, 96)-(256, 288).
C18_Rectangle ==
    drawn # NoDrawing =>
        /\ IsPixelOf(drawn.rect.x1, drawn.box.Left, drawn.shape.width)
        /\ IsPixelOf(drawn.rect.y1, drawn.box.Top, drawn.shape.height)
        /\ IsPixelOf(drawn.rect.x2 - drawn.rect.x1,
                     drawn.box.Width, drawn.shape.width)
        /\ IsPixelOf(drawn.rect.y2 - drawn.rect.y1,
                     drawn.box.Height, drawn.shape.height)
        /\ (/\ drawn.box = [Left |-> 1, Top |-> 2, Width |-> 3, Height |-> 4]
            /\ drawn.shape = [width |-> 640, height |-> 480])
             => drawn.rect = [x1 |-> 64, y1 |-> 96, x2 |-> 256, y2 |-> 288]

\* C18 witness: the box (0.1, 0.2, 0.3, 0.4) was drawn on a 640 x 480 frame.
C18_Witness ==
    /\ drawn.box = [Left |-> 1, Top |-> 2, Width |-> 3, Height |-> 4]
    /\ drawn.shape = [width |-> 640, height |-> 480]
    /\ drawn.rect = [x1 |-> 64, y1 |-> 96, x2 |-> 256, y2 |-> 288]

\* ---- C19 ------------------------------------------------------------------
\* C19: last_analysis_time starts at the session start; no tick at most
\* min_interval_seconds after the start is analysed, whatever triggers it,
\* and every analysis is more than min_interval_seconds after the start.
C19_NoAnalysisNearStart ==
    /\ (pc = "running" /\ tick.index = 0)
         => last_analysis_time = SESSION_START
    /\ \A c \in DOMAIN calls : calls[c].now - SESSION_START > MIN_INTERVAL
    /\ tick.analysed => tick.now - SESSION_START > MIN_INTERVAL
    /\ (Triggered /\ tick.now - SESSION_START <= MIN_INTERVAL)
         => PassedThrough

\* C19 witness: the first tick, triggered exactly min_interval_seconds after
\* the start, passed through.
C19_Witness ==
    /\ tick.index = 1
    /\ Triggered
    /\ tick.now - SESSION_START = MIN_INTERVAL
    /\ PassedThrough

\* ---- C20 ------------------------------------------------------------------
\* C20: an analysed tick encodes once, then sends one face request and after
\* it one label request; when the face request fails no box is drawn, the
\* label request is still sent and the results are still printed.
C20_CallsIndependent ==
    tick.analysed =>
        /\ Count(tick.events, "encode") = 1
        /\ Count(tick.events, "faces_call") = 1
        /\ Count(tick.events, "labels_call") = 1
        /\ FirstAt(tick.events, "encode") < FirstAt(tick.events, "faces_call")
        /\ FirstAt(tick.events, "faces_call")
             < FirstAt(tick.events, "labels_call")
        /\ ticks[Len(ticks)].faces.kind \in Failures
             => /\ ticks[Len(ticks)].boxes = 0
                /\ Count(tick.events, "print_results") = 1

\* ---- C21 ------------------------------------------------------------------
\* C21: simple_camera_test never leaves by an exception once it has tried to
\* open the camera; it returns False exactly when the camera could not be
\* opened; and when the camera was opened it returns True after releasing
\* the camera and printing the frame count, whichever way the loop was left.
C21_AlwaysReturnsTrue ==
    /\ camera_test.pc # "raised"
    /\ camera_test.propagated = "none"
    /\ camera_test.pc = "returned" =>
         /\ camera_test.result = "False" <=> ~camera_test.opened
         /\ camera_test.opened =>
              /\ camera_test.result = "True"
              /\ camera_test.released
              /\ camera_test.windows_destroyed
              /\ camera_test.summary = camera_test.frame_count
              /\ "completed" \in camera_test.printed
              /\ camera_test.exit
                   \in {"quit", "read_failed", "KeyboardInterrupt",
                        "cv2.error"}
    /\ camera_test.exit # "none" =>
         camera_test.pc \in {"except", "finally", "finally_destroy",
                             "finally_print", "finally_return", "returned"}

\* C21 witness: a statement of the loop raised after a frame was read, and
\* simple_camera_test returned True with the camera released and the count
\* printed.
C21_Witness ==
    /\ camera_test.pc = "returned"
    /\ camera_test.exit = "cv2.error"
    /\ camera_test.frame_count > 0
    /\ camera_test.released
    /\ camera_test.summary = camera_test.frame_count
    /\ camera_test.result = "True"

====
